---- MODULE Spec2Model ----
(***************************************************************************)
(* A model of schedule-generator (src/generator.py): the pairing pipeline  *)
(* build_pairs / pair_devs, the calendar placement build_schedule_order /  *)
(* get_schedule_pair_idx, and the weekly loop build_multi_week_schedule.   *)
(*                                                                         *)
(* Dates are day ordinals; day 0 is a Monday, so date.weekday() is the     *)
(* ordinal modulo 7.  Developer names are the numbers 1..n.  A Python dict *)
(* is a function whose DOMAIN is its key set; a Python list is a sequence  *)
(* (indexed from 1 here, from 0 in the code: rand_pair_idx keeps the       *)
(* code's 0-based value).  np.random.rand() is a draw x/DrawRes with x in  *)
(* 0..DrawRes-1, a value of [0, 1).                                        *)
(***************************************************************************)
EXTENDS Integers, Sequences, FiniteSets, TLC

VARIABLES
    pc,                    \* position of the running call
    \* ---- build_pairs / pair_devs
    devs,                  \* the cohort: sequence of [name, repos]
    previous_pairs,        \* dict name -> names not to pair with again
    dev_matches,           \* dict name -> ranked list of [name, diff]
    dev_difficulty,        \* list of [name, difficulty], hardest first
    dev_idx,               \* position of pair_devs' outer loop in dev_difficulty
    used_devs,             \* pair_devs' list of consumed names
    unmatched,             \* history: names pair_devs processed and found no partner for
    dev_pairs,             \* list of pairs: pair_devs' result, build_schedule_order's input
    \* ---- build_schedule_order / get_schedule_pair_idx
    schedule_restrictions, \* dict name -> set of dates
    start_date,
    start_arg,             \* history: start_date as passed by the caller
    days,                  \* <<>> for None, <<n>> for a supplied day count
    pairs,                 \* the working copy of the pool
    schedule,              \* list of [pair, date]
    current_date,
    day,                   \* the for loop's counter
    attempts,              \* get_schedule_pair_idx's local "attempts"
    can_schedule,
    rand_pair_idx,
    tries,                 \* history: iterations of the while loop in this call
    \* ---- build_multi_week_schedule
    week_start,
    weeks,
    week,                  \* the weekly loop's counter i
    last_schedule,         \* history: the schedule of the week before
    \* ---- get_ideal_pair and diff_heuristic called on their own
    ideal_pair,            \* the dict get_ideal_pair returned
    total_diff,            \* the number diff_heuristic returned
    \* ---- random_schedule (src/genetic.py)
    total_shifts,
    max_shifts,
    num_shifts,            \* list of shift counts, one per developer
    shift_schedule         \* random_schedule's local "schedule": list of pairs of devs

pairVars  == <<devs, previous_pairs, dev_matches, dev_difficulty, dev_idx, used_devs,
               unmatched>>
orderVars == <<schedule_restrictions, start_date, start_arg, days, pairs, schedule, current_date,
               day, attempts, can_schedule, rand_pair_idx, tries>>
weekVars  == <<week_start, weeks, week, last_schedule>>
profileVars == <<ideal_pair, total_diff>>
shiftVars == <<total_shifts, max_shifts, num_shifts, shift_schedule>>
vars      == <<pc, pairVars, dev_pairs, orderVars, weekVars, profileVars, shiftVars>>

\* the variables of the calls that are not running keep these values
IdlePairs ==
    /\ previous_pairs = <<>>
    /\ dev_matches = <<>>
    /\ dev_difficulty = <<>>
    /\ dev_idx = 0
    /\ used_devs = <<>>
    /\ unmatched = {}
    /\ dev_pairs = <<>>

IdleOrder ==
    /\ schedule_restrictions = <<>>
    /\ start_date = 0
    /\ start_arg = 0
    /\ days = <<>>
    /\ pairs = <<>>
    /\ schedule = <<>>
    /\ current_date = 0
    /\ day = 0
    /\ attempts = 0
    /\ can_schedule = FALSE
    /\ rand_pair_idx = 0
    /\ tries = 0

IdleWeeks ==
    /\ week_start = 0
    /\ weeks = 0
    /\ week = 0
    /\ last_schedule = <<>>

IdleProfile ==
    /\ ideal_pair = <<>>
    /\ total_diff = 0

IdleShifts ==
    /\ total_shifts = 0
    /\ max_shifts = 0
    /\ num_shifts = <<>>
    /\ shift_schedule = <<>>

(***************************************************************************)
(* Bounds of the model and constants of the program.                       *)
(***************************************************************************)
MaxPairs        == 3    \* pairs handed to build_schedule_order on its own
MaxRestrictions == 2    \* (name, date) entries of a restriction map
DrawRes         == 4    \* resolution of the random draw
TriesCap        == 11   \* the history counter tries saturates here
MaxDevs         == 4    \* developers of a cohort
MaxExclusions   == 2    \* (name, excluded name) entries of a previous-pairs map
MaxWeeks        == 3    \* weeks of build_multi_week_schedule
MaxMalformedDevs == 3   \* developers of a cohort that may be malformed

MAX_VAL         == 5
MIN_VAL         == 1
DaysInWeek      == 7
Saturday        == 5
MaxAttempts     == 10

\* the repositories the developers are rated on
REPOS == {"repo1"}

Range(s) == {s[j] : j \in DOMAIN s}

\* the subsets of S with at most k elements
RECURSIVE SubsetsUpTo(_, _)
SubsetsUpTo(S, k) ==
    IF k = 0 THEN {{}}
    ELSE LET smaller == SubsetsUpTo(S, k - 1)
         IN  smaller \cup {T \cup {e} : T \in smaller, e \in S}

RemoveAt(s, j) == [m \in 1..(Len(s) - 1) |-> IF m < j THEN s[m] ELSE s[m + 1]]

\* ceil(p / q) for q > 0
CeilDiv(p, q) == -((-p) \div q)

(***************************************************************************)
(* The pairing pipeline: get_ideal_pair .. total_dev_pairing_difficulty    *)
(***************************************************************************)
Abs(v) == IF v < 0 THEN -v ELSE v

\* get_ideal_pair without "+ MIN_VAL"
get_ideal_pair_from_zero(dev) ==
    [repo \in DOMAIN dev.repos |-> MAX_VAL - dev.repos[repo]]

get_ideal_pair(dev) ==
    [repo \in DOMAIN dev.repos |-> MAX_VAL - dev.repos[repo] + MIN_VAL]

\* a dict keyed by name: the last dev of a name is the one that stays
LastNamed(ds, name) == ds[CHOOSE j \in DOMAIN ds :
                            /\ ds[j].name = name
                            /\ \A m \in DOMAIN ds : ds[m].name = name => m <= j]

get_ideal_dev_pairs(ds) ==
    [name \in {ds[j].name : j \in DOMAIN ds} |-> get_ideal_pair(LastNamed(ds, name))]

\* SumDiff without abs(): signed differences
RECURSIVE SumDiffSigned(_, _, _)
SumDiffSigned(repos, dev1, dev2) ==
    IF repos = {} THEN 0
    ELSE LET repo == CHOOSE r \in repos : TRUE
         IN  (dev1[repo] - dev2[repo]) + SumDiffSigned(repos \ {repo}, dev1, dev2)

RECURSIVE SumDiff(_, _, _)
SumDiff(repos, dev1, dev2) ==
    IF repos = {} THEN 0
    ELSE LET repo == CHOOSE r \in repos : TRUE
         IN  Abs(dev1[repo] - dev2[repo]) + SumDiff(repos \ {repo}, dev1, dev2)

diff_heuristic(dev1, dev2) == SumDiff(DOMAIN dev1, dev1, dev2)

\* SortByDiff putting a rank before the ranks of equal diff (not stable)
RECURSIVE SortByDiffTiesFirst(_)
SortByDiffTiesFirst(ranks) ==
    IF ranks = <<>> THEN <<>>
    ELSE LET front == SortByDiffTiesFirst(SubSeq(ranks, 1, Len(ranks) - 1))
             last  == ranks[Len(ranks)]
             k     == Cardinality({j \in DOMAIN front : front[j].diff < last.diff})
         IN  SubSeq(front, 1, k) \o <<last>> \o SubSeq(front, k + 1, Len(front))

\* sorted(..., key=itemgetter('diff')): a stable sort, by insertion
RECURSIVE SortByDiff(_)
SortByDiff(ranks) ==
    IF ranks = <<>> THEN <<>>
    ELSE LET front == SortByDiff(SubSeq(ranks, 1, Len(ranks) - 1))
             last  == ranks[Len(ranks)]
             k     == Cardinality({j \in DOMAIN front : front[j].diff <= last.diff})
         IN  SubSeq(front, 1, k) \o <<last>> \o SubSeq(front, k + 1, Len(front))

\* allowed_ranks: <<>> for None, <<k>> for a cap
reorder_ranks(ranks, allowed_ranks) ==
    LET new_ranks == SortByDiff(ranks)
    IN  IF allowed_ranks = <<>> THEN new_ranks
        ELSE SubSeq(new_ranks, 1, IF allowed_ranks[1] < Len(new_ranks)
                                  THEN allowed_ranks[1] ELSE Len(new_ranks))

get_dev_matches(ds, ideal_pairs) ==
    [name \in {ds[j].name : j \in DOMAIN ds} |->
        LET others == SelectSeq(ds, LAMBDA c : c.name # name)
            top_matches == [j \in DOMAIN others |->
                              [name |-> others[j].name,
                               diff |-> diff_heuristic(ideal_pairs[name], others[j].repos)]]
        IN  reorder_ranks(top_matches, <<>>)]

RECURSIVE SumOfDiffs(_)
SumOfDiffs(matches) ==
    IF matches = <<>> THEN 0
    ELSE matches[Len(matches)].diff + SumOfDiffs(SubSeq(matches, 1, Len(matches) - 1))

\* SortByDifficultyDesc putting a dev before the devs of equal difficulty
RECURSIVE SortByDifficultyTiesFirst(_)
SortByDifficultyTiesFirst(ds) ==
    IF ds = <<>> THEN <<>>
    ELSE LET front == SortByDifficultyTiesFirst(SubSeq(ds, 1, Len(ds) - 1))
             last  == ds[Len(ds)]
             k     == Cardinality({j \in DOMAIN front : front[j].difficulty > last.difficulty})
         IN  SubSeq(front, 1, k) \o <<last>> \o SubSeq(front, k + 1, Len(front))

\* sorted(..., key=itemgetter('difficulty'), reverse=True): stable, by insertion
RECURSIVE SortByDifficultyDesc(_)
SortByDifficultyDesc(ds) ==
    IF ds = <<>> THEN <<>>
    ELSE LET front == SortByDifficultyDesc(SubSeq(ds, 1, Len(ds) - 1))
             last  == ds[Len(ds)]
             k     == Cardinality({j \in DOMAIN front : front[j].difficulty >= last.difficulty})
         IN  SubSeq(front, 1, k) \o <<last>> \o SubSeq(front, k + 1, Len(front))

\* the keys of a dict built over ds, in insertion order
RECURSIVE KeyOrder(_)
KeyOrder(ds) ==
    IF ds = <<>> THEN <<>>
    ELSE LET front == KeyOrder(SubSeq(ds, 1, Len(ds) - 1))
             name  == ds[Len(ds)].name
         IN  IF \E j \in DOMAIN front : front[j] = name THEN front ELSE Append(front, name)

\* keys: dev_matches.items() goes through the keys in insertion order
total_dev_pairing_difficulty(matches, keys) ==
    SortByDifficultyDesc([j \in DOMAIN keys |->
        [name |-> keys[j], difficulty |-> SumOfDiffs(matches[keys[j]])]])

(***************************************************************************)
(* pair_devs, one step per iteration of its outer loop                     *)
(***************************************************************************)
\* FirstCandidate taking a consumed candidate too (line 195 left out)
FirstCandidateAnyUse(name, used, matches, previous) ==
    LET ok == {j \in DOMAIN matches[name] :
                  ~(name \in DOMAIN previous /\ matches[name][j].name \in previous[name])}
    IN  IF ok = {} THEN <<>>
        ELSE <<matches[name][CHOOSE j \in ok : \A m \in ok : j <= m].name>>

\* FirstCandidate looking at the best match only (no scan down the list)
FirstCandidateTopOnly(name, used, matches, previous) ==
    LET ok == {j \in DOMAIN matches[name] :
                  /\ j = 1
                  /\ matches[name][j].name \notin Range(used)
                  /\ ~(name \in DOMAIN previous /\ matches[name][j].name \in previous[name])}
    IN  IF ok = {} THEN <<>>
        ELSE <<matches[name][CHOOSE j \in ok : \A m \in ok : j <= m].name>>

\* FirstCandidate taking the last admissible match of the list, not the first
FirstCandidateLast(name, used, matches, previous) ==
    LET ok == {j \in DOMAIN matches[name] :
                  /\ matches[name][j].name \notin Range(used)
                  /\ ~(name \in DOMAIN previous /\ matches[name][j].name \in previous[name])}
    IN  IF ok = {} THEN <<>>
        ELSE <<matches[name][CHOOSE j \in ok : \A m \in ok : j >= m].name>>

\* FirstCandidate treating an exclusion as holding in both directions
FirstCandidateMutual(name, used, matches, previous) ==
    LET ok == {j \in DOMAIN matches[name] :
                  /\ matches[name][j].name \notin Range(used)
                  /\ ~(name \in DOMAIN previous /\ matches[name][j].name \in previous[name])
                  /\ ~(/\ matches[name][j].name \in DOMAIN previous
                       /\ name \in previous[matches[name][j].name])}
    IN  IF ok = {} THEN <<>>
        ELSE <<matches[name][CHOOSE j \in ok : \A m \in ok : j <= m].name>>

\* lines 194-200: the first ranked match that is neither consumed nor excluded
\* for name; <<>> when the inner loop ends without a break
FirstCandidate(name, used, matches, previous) ==
    LET ok == {j \in DOMAIN matches[name] :
                  /\ matches[name][j].name \notin Range(used)
                  /\ ~(name \in DOMAIN previous /\ matches[name][j].name \in previous[name])}
    IN  IF ok = {} THEN <<>>
        ELSE <<matches[name][CHOOSE j \in ok : \A m \in ok : j <= m].name>>

\* lines 109-111 under get_dev_matches' two loops: some dev2[repo] is looked up
\* for a repo that dev2 does not have
MissingKey(ds, ideal_pairs) ==
    \E j, m \in DOMAIN ds :
        /\ ds[m].name # ds[j].name
        /\ \E repo \in DOMAIN ideal_pairs[ds[j].name] : repo \notin DOMAIN ds[m].repos

\* build_pairs ended by the KeyError of line 111
BuildPairsKeyError ==
    /\ pc = "pairs_call"
    /\ MissingKey(devs, get_ideal_dev_pairs(devs))
    /\ pc' = "KeyError"
    /\ UNCHANGED <<pairVars, dev_pairs, orderVars, weekVars, profileVars, shiftVars>>

\* lines 217-219 of build_pairs, then lines 190-191 of pair_devs
BuildPairsCall ==
    /\ pc = "pairs_call"
    /\ ~MissingKey(devs, get_ideal_dev_pairs(devs))
    /\ dev_matches' = get_dev_matches(devs, get_ideal_dev_pairs(devs))
    /\ dev_difficulty' = total_dev_pairing_difficulty(
                             get_dev_matches(devs, get_ideal_dev_pairs(devs)), KeyOrder(devs))
    /\ dev_pairs' = <<>>
    /\ used_devs' = <<>>
    /\ unmatched' = {}
    /\ dev_idx' = 0
    /\ pc' = "pair_loop"
    /\ UNCHANGED <<devs, previous_pairs, orderVars, weekVars, profileVars,
                   shiftVars>>

\* lines 192-200: one developer of dev_difficulty
PairStep ==
    /\ pc = "pair_loop"
    /\ dev_idx < Len(dev_difficulty)
    /\ LET name == dev_difficulty[dev_idx + 1].name
           cand == FirstCandidate(name, used_devs, dev_matches, previous_pairs)
       IN  IF name \notin Range(used_devs) /\ cand # <<>>
           THEN /\ dev_pairs' = Append(dev_pairs, <<name, cand[1]>>)
                /\ used_devs' = used_devs \o <<name, cand[1]>>
                /\ unmatched' = unmatched
           ELSE /\ UNCHANGED <<dev_pairs, used_devs>>
                /\ unmatched' = IF name \notin Range(used_devs)
                                THEN unmatched \cup {name} ELSE unmatched
    /\ dev_idx' = dev_idx + 1
    /\ UNCHANGED <<pc, devs, previous_pairs, dev_matches, dev_difficulty, orderVars, weekVars, profileVars,
                   shiftVars>>

\* line 202, and line 222 of build_pairs
PairsReturn ==
    /\ pc = "pair_loop"
    /\ dev_idx >= Len(dev_difficulty)
    /\ pc' = "pairs_done"
    /\ UNCHANGED <<pairVars, dev_pairs, orderVars, weekVars, profileVars,
                   shiftVars>>

(***************************************************************************)
(* skip_weekend, check_can_schedule                                        *)
(***************************************************************************)
weekday(dt) == dt % DaysInWeek

\* skip_weekend with "if" for "while": one day forward at most
skip_weekend_once(dt) == IF weekday(dt) >= Saturday THEN dt + 1 ELSE dt

RECURSIVE skip_weekend(_)
skip_weekend(dt) == IF weekday(dt) >= Saturday THEN skip_weekend(dt + 1) ELSE dt

\* check_can_schedule returning after the first member of the pair
check_can_schedule_first(pair, restrictions, schedule_date) ==
    ~(pair[1] \in DOMAIN restrictions /\ schedule_date \in restrictions[pair[1]])

check_can_schedule(pair, restrictions, schedule_date) ==
    \A m \in DOMAIN pair :
        ~(pair[m] \in DOMAIN restrictions /\ schedule_date \in restrictions[pair[m]])

\* int(np.ceil(np.random.rand() * (len(pairs) - 1))) for the draw x / DrawRes
RandIdx(x, n) == CeilDiv(x * (n - 1), DrawRes)

(***************************************************************************)
(* build_schedule_order, one step per loop iteration                       *)
(***************************************************************************)
NumDays == IF days = <<>> THEN Len(dev_pairs) ELSE days[1]

WhileCond == attempts < MaxAttempts /\ ~can_schedule

\* lines 301-306: copy the pool, default the day count, move a weekend start
OrderCall ==
    /\ pc = "order_call"
    /\ pairs' = dev_pairs
    /\ days' = <<NumDays>>
    /\ schedule' = <<>>
    /\ start_date' = skip_weekend(start_date)
    /\ current_date' = skip_weekend(start_date)
    /\ day' = 0
    /\ pc' = "for"
    /\ UNCHANGED <<pairVars, dev_pairs, schedule_restrictions, start_arg, attempts,
                   can_schedule, rand_pair_idx, tries, weekVars, profileVars,
                   shiftVars>>

\* ForBody without line 308: the weekend is skipped for the start date only
ForBodyNoSkip ==
    /\ pc = "for"
    /\ day < NumDays
    /\ can_schedule' = FALSE
    /\ attempts' = 0
    /\ rand_pair_idx' = 0
    /\ tries' = 0
    /\ pc' = "while"
    /\ UNCHANGED <<pairVars, dev_pairs, schedule_restrictions, start_date, start_arg, days,
                   pairs, schedule, current_date, day, weekVars, profileVars,
                   shiftVars>>

\* lines 307-310: next iteration of the for loop, entering get_schedule_pair_idx
ForBody ==
    /\ pc = "for"
    /\ day < NumDays
    /\ current_date' = skip_weekend(current_date)
    /\ can_schedule' = FALSE
    /\ attempts' = 0
    /\ rand_pair_idx' = 0
    /\ tries' = 0
    /\ pc' = "while"
    /\ UNCHANGED <<pairVars, dev_pairs, schedule_restrictions, start_date, start_arg, days,
                   pairs, schedule, day, weekVars, profileVars,
                   shiftVars>>

\* lines 277-280: one iteration of the while loop; attempts is not assigned
Attempt(x) ==
    /\ pc = "while"
    /\ WhileCond
    /\ RandIdx(x, Len(pairs)) < Len(pairs)
    /\ rand_pair_idx' = RandIdx(x, Len(pairs))
    /\ can_schedule' = check_can_schedule(pairs[RandIdx(x, Len(pairs)) + 1],
                                          schedule_restrictions, current_date)
    /\ tries' = IF tries < TriesCap THEN tries + 1 ELSE tries
    /\ UNCHANGED <<pc, pairVars, dev_pairs, schedule_restrictions, start_date, start_arg, days,
                   pairs, schedule, current_date, day, attempts, weekVars, profileVars,
                   shiftVars>>

\* line 279 on an empty pool: pairs[0] raises IndexError
AttemptIndexError(x) ==
    /\ pc = "while"
    /\ WhileCond
    /\ RandIdx(x, Len(pairs)) >= Len(pairs)
    /\ rand_pair_idx' = RandIdx(x, Len(pairs))
    /\ tries' = IF tries < TriesCap THEN tries + 1 ELSE tries
    /\ pc' = "IndexError"
    /\ UNCHANGED <<pairVars, dev_pairs, schedule_restrictions, start_date, start_arg, days,
                   pairs, schedule, current_date, day, attempts, can_schedule, weekVars, profileVars,
                   shiftVars>>

\* Place without line 312: the placed pair stays in the pool
PlaceKeep ==
    /\ pc = "while"
    /\ ~WhileCond
    /\ schedule' = Append(schedule, [pair |-> pairs[rand_pair_idx + 1], date |-> current_date])
    /\ current_date' = current_date + 1
    /\ day' = day + 1
    /\ pc' = "for"
    /\ UNCHANGED <<pairVars, dev_pairs, schedule_restrictions, start_date, start_arg, days,
                   pairs, attempts, can_schedule, rand_pair_idx, tries, weekVars, profileVars,
                   shiftVars>>

\* lines 282, 311-314: the loop is left, the pair is taken out of the pool and placed
Place ==
    /\ pc = "while"
    /\ ~WhileCond
    /\ schedule' = Append(schedule, [pair |-> pairs[rand_pair_idx + 1], date |-> current_date])
    /\ pairs' = RemoveAt(pairs, rand_pair_idx + 1)
    /\ current_date' = current_date + 1
    /\ day' = day + 1
    /\ pc' = "for"
    /\ UNCHANGED <<pairVars, dev_pairs, schedule_restrictions, start_date, start_arg, days,
                   attempts, can_schedule, rand_pair_idx, tries, weekVars, profileVars,
                   shiftVars>>

\* line 316
OrderReturn ==
    /\ pc = "for"
    /\ day >= NumDays
    /\ pc' = "order_done"
    /\ UNCHANGED <<pairVars, dev_pairs, orderVars, weekVars, profileVars,
                   shiftVars>>

(***************************************************************************)
(* build_schedule_order called on its own, for every pool, restriction     *)
(* map, start date and day count within the bounds.                        *)
(***************************************************************************)
PairList(n) == [j \in 1..n |-> <<2 * j - 1, 2 * j>>]

RestrictDates == {DaysInWeek, DaysInWeek + 1}

RestrictionMap(R) ==
    [d \in {e[1] : e \in R} |-> {e[2] : e \in {f \in R : f[1] = d}}]

RestrictionMaps(n) ==
    {RestrictionMap(R) : R \in SubsetsUpTo((1..(2 * n)) \X RestrictDates, MaxRestrictions)}

InitOrder ==
    /\ pc = "order_call"
    /\ devs = <<>>
    /\ previous_pairs = <<>>
    /\ dev_matches = <<>>
    /\ dev_difficulty = <<>>
    /\ dev_idx = 0
    /\ used_devs = <<>>
    /\ unmatched = {}
    /\ \E n \in 0..MaxPairs :
        /\ dev_pairs = PairList(n)
        /\ schedule_restrictions \in RestrictionMaps(n)
    /\ start_date \in 0..(DaysInWeek - 1)
    /\ start_arg = start_date
    /\ days \in {<<>>} \cup {<<n>> : n \in 0..(MaxPairs + 1)}
    /\ pairs = <<>>
    /\ schedule = <<>>
    /\ current_date = 0
    /\ day = 0
    /\ attempts = 0
    /\ can_schedule = FALSE
    /\ rand_pair_idx = 0
    /\ tries = 0
    /\ week_start = 0
    /\ weeks = 0
    /\ week = 0
    /\ last_schedule = <<>>
    /\ IdleProfile
    /\ IdleShifts

NextOrder ==
    \/ OrderCall
    \/ ForBody
    \/ \E x \in 0..(DrawRes - 1) : Attempt(x)
    \/ \E x \in 0..(DrawRes - 1) : AttemptIndexError(x)
    \/ Place
    \/ OrderReturn

SpecOrder == InitOrder /\ [][NextOrder]_vars

(***************************************************************************)
(* Properties of build_schedule_order                                      *)
(***************************************************************************)
IsWeekend(dt) == dt % DaysInWeek \in {Saturday, Saturday + 1}

\* the least working day on or after dt
FirstWeekdayFrom(dt) ==
    CHOOSE e \in dt..(dt + DaysInWeek) :
        ~IsWeekend(e) /\ \A f \in dt..(e - 1) : IsWeekend(f)

\* every pair left in the pool has a member restricted on the current date
AllBlocked ==
    /\ pc = "while"
    /\ pairs # <<>>
    /\ \A j \in DOMAIN pairs :
          \E m \in DOMAIN pairs[j] :
              /\ pairs[j][m] \in DOMAIN schedule_restrictions
              /\ current_date \in schedule_restrictions[pairs[j][m]]

\* C1: get_schedule_pair_idx makes at most 10 selection attempts per call.
C1_AtMostTenAttempts == tries <= MaxAttempts

\* C2: when every remaining pair is blocked on the current date, the step after
\* the 10th rejected attempt places the last-drawn pair on that date.
C2_DegradeAfterTen ==
    [][(AllBlocked /\ tries = MaxAttempts)
          => /\ Len(schedule') = Len(schedule) + 1
             /\ schedule'[Len(schedule')] =
                    [pair |-> pairs[rand_pair_idx + 1], date |-> current_date]]_vars

\* C3: no slot of the schedule is dated on a Saturday or a Sunday, at any point.
C3_NoWeekendSlot == \A j \in DOMAIN schedule : ~IsWeekend(schedule[j].date)

C3_Witness ==
    /\ IsWeekend(start_arg)
    /\ Len(schedule) >= 2

\* C4: a completed call with slot_count <= number of pairs returns slot_count
\* slots on the consecutive working days from start_date.
C4_ConsecutiveWorkingDays ==
    (pc = "order_done" /\ NumDays <= Len(dev_pairs)) =>
        /\ Len(schedule) = NumDays
        /\ Len(schedule) >= 1 => schedule[1].date = FirstWeekdayFrom(start_arg)
        /\ \A j \in 2..Len(schedule) :
              /\ schedule[j].date = FirstWeekdayFrom(schedule[j - 1].date + 1)
              /\ schedule[j].date > schedule[j - 1].date

C4_Witness ==
    /\ pc = "order_done"
    /\ NumDays <= Len(dev_pairs)
    /\ Len(schedule) = 3
    /\ schedule[2].date % DaysInWeek = Saturday - 1
    /\ schedule[3].date = schedule[2].date + 3

\* C5: no pair is placed in two slots; with slot_count = number of (distinct)
\* pairs, the returned schedule holds every input pair once and the pool is empty.
C5_EachPairOnce ==
    /\ \A j, m \in DOMAIN schedule : j # m => schedule[j].pair # schedule[m].pair
    /\ (pc = "order_done" /\ NumDays = Len(dev_pairs)) =>
          /\ Len(schedule) = Len(dev_pairs)
          /\ {schedule[j].pair : j \in DOMAIN schedule} = Range(dev_pairs)
          /\ pairs = <<>>

C5_Witness ==
    /\ pc = "order_done"
    /\ NumDays = Len(dev_pairs)
    /\ Len(schedule) >= 3
    /\ schedule[1].pair = dev_pairs[3]
    /\ schedule[2].pair = dev_pairs[1]

\* C10: with slot_count above the number of pairs the call does not return a
\* schedule, fills no slot with a pair placed before, and does not run on for
\* ever: no search goes past its 10 attempts, and the search on the emptied
\* pool is the failure.
C10_ExhaustedPoolFails ==
    NumDays > Len(dev_pairs) =>
        /\ pc # "order_done"
        /\ \A j, m \in DOMAIN schedule : j # m => schedule[j].pair # schedule[m].pair
        /\ Len(schedule) <= Len(dev_pairs)
        /\ tries <= MaxAttempts
        /\ (pc = "while" /\ pairs = <<>>) => \A x \in 0..(DrawRes - 1) : ENABLED AttemptIndexError(x)

\* the number of draw values that give index i in a pool of n pairs
Share(i, n) == Cardinality({x \in 0..(DrawRes - 1) : RandIdx(x, n) = i})

\* C17: a selection attempt gives every index of the pool, index 0 included, an
\* equal share of the draw values (equal up to one value of the resolution).
C17_UniformDraw ==
    (pc = "while" /\ pairs # <<>>) =>
        \A i, j \in 0..(Len(pairs) - 1) : Share(i, Len(pairs)) - Share(j, Len(pairs)) <= 1

Cohorts(n, levels) ==
    {[j \in 1..n |-> [name |-> j, repos |-> skills[j]]] :
        skills \in [1..n -> [REPOS -> levels]]}

\* a low, a middle and a high knowledge level
SkillLevels == {MIN_VAL, (MIN_VAL + MAX_VAL) \div 2, MAX_VAL}

PreviousPairsMaps(n) ==
    {RestrictionMap(R) :
        R \in SubsetsUpTo({e \in (1..n) \X (1..n) : e[1] # e[2]}, MaxExclusions)}

InitPairs ==
    /\ pc = "pairs_call"
    /\ \E n \in 0..MaxDevs :
        /\ devs \in Cohorts(n, SkillLevels)
        /\ previous_pairs \in PreviousPairsMaps(n)
    /\ dev_matches = <<>>
    /\ dev_difficulty = <<>>
    /\ dev_idx = 0
    /\ used_devs = <<>>
    /\ unmatched = {}
    /\ dev_pairs = <<>>
    /\ schedule_restrictions = <<>>
    /\ start_date = 0
    /\ start_arg = 0
    /\ days = <<>>
    /\ pairs = <<>>
    /\ schedule = <<>>
    /\ current_date = 0
    /\ day = 0
    /\ attempts = 0
    /\ can_schedule = FALSE
    /\ rand_pair_idx = 0
    /\ tries = 0
    /\ week_start = 0
    /\ weeks = 0
    /\ week = 0
    /\ last_schedule = <<>>
    /\ IdleProfile
    /\ IdleShifts

NextPairs ==
    \/ BuildPairsCall
    \/ PairStep
    \/ PairsReturn

SpecPairs == InitPairs /\ [][NextPairs]_vars

(***************************************************************************)
(* Properties of pair_devs                                                 *)
(***************************************************************************)
Excludes(a, b) == a \in DOMAIN previous_pairs /\ b \in previous_pairs[a]

Paired == UNION {Range(dev_pairs[j]) : j \in DOMAIN dev_pairs}

\* C6: the pairs are pairwise disjoint, each of two distinct members, and the
\* list of consumed names holds no name twice, after every step of the loop.
C6_PairsDisjoint ==
    /\ \A j \in DOMAIN dev_pairs : dev_pairs[j][1] # dev_pairs[j][2]
    /\ \A j, m \in DOMAIN dev_pairs :
          j # m => Range(dev_pairs[j]) \cap Range(dev_pairs[m]) = {}
    /\ \A j, m \in DOMAIN used_devs : j # m => used_devs[j] # used_devs[m]

C6_Witness ==
    /\ pc = "pairs_done"
    /\ Len(dev_pairs) = 2
    /\ DOMAIN previous_pairs # {}
    /\ dev_pairs[1][1] # dev_difficulty[2].name
    /\ dev_pairs[1][2] = dev_difficulty[2].name

\* C7: with no exclusions a cohort of n yields floor(n/2) pairs, and an odd
\* cohort leaves exactly one developer out.
C7_HalfTheCohort ==
    (pc = "pairs_done" /\ DOMAIN previous_pairs = {}) =>
        /\ Len(dev_pairs) = Len(devs) \div 2
        /\ Len(devs) % 2 = 1 =>
              Cardinality({j \in DOMAIN devs : devs[j].name \notin Paired}) = 1

C7_Witness ==
    /\ pc = "pairs_done"
    /\ DOMAIN previous_pairs = {}
    /\ Len(devs) = 3
    /\ Len(dev_pairs) = 1
    /\ unmatched # {}

\* C8: no returned pair has a member in the other member's exclusion set, in
\* either direction, and a developer left without an admissible candidate
\* stays unpaired.
C8_ExclusionsHard ==
    /\ \A j \in DOMAIN dev_pairs :
          /\ ~Excludes(dev_pairs[j][1], dev_pairs[j][2])
          /\ ~Excludes(dev_pairs[j][2], dev_pairs[j][1])
    /\ \A d \in unmatched : d \notin Range(used_devs)

\* position of a name in the cohort
PosOf(name) == CHOOSE j \in DOMAIN devs : devs[j].name = name

Names == {devs[j].name : j \in DOMAIN devs}

\* C12: each developer's ranked list holds every other developer once and
\* never the developer, by ascending diff, equal diffs in cohort order.
C12_RankedMatches ==
    pc # "pairs_call" =>
        \A p \in Names :
            LET list == dev_matches[p]
            IN  /\ Len(list) = Len(devs) - 1
                /\ {list[m].name : m \in DOMAIN list} = Names \ {p}
                /\ \A m, k \in DOMAIN list :
                      m < k => \/ list[m].diff < list[k].diff
                               \/ /\ list[m].diff = list[k].diff
                                  /\ PosOf(list[m].name) < PosOf(list[k].name)

C12_Witness ==
    /\ pc = "pairs_done"
    /\ \E p \in Names :
          LET list == dev_matches[p]
          IN  /\ Len(list) = 3
              /\ list[1].diff < list[2].diff
              /\ list[2].diff = list[3].diff
              /\ PosOf(list[1].name) > PosOf(list[3].name)

\* the sum of the diffs of a ranked list, added up from the front
RECURSIVE DiffTotal(_, _)
DiffTotal(list, from) ==
    IF from > Len(list) THEN 0 ELSE list[from].diff + DiffTotal(list, from + 1)

\* C13: dev_difficulty gives each developer the sum of the diffs of their
\* ranked list, by descending difficulty, equal difficulties in cohort order.
C13_DifficultyOrder ==
    pc # "pairs_call" =>
        /\ Len(dev_difficulty) = Len(devs)
        /\ {dev_difficulty[j].name : j \in DOMAIN dev_difficulty} = Names
        /\ \A j \in DOMAIN dev_difficulty :
              dev_difficulty[j].difficulty = DiffTotal(dev_matches[dev_difficulty[j].name], 1)
        /\ \A j, m \in DOMAIN dev_difficulty :
              j < m => \/ dev_difficulty[j].difficulty > dev_difficulty[m].difficulty
                       \/ /\ dev_difficulty[j].difficulty = dev_difficulty[m].difficulty
                          /\ PosOf(dev_difficulty[j].name) < PosOf(dev_difficulty[m].name)

C13_Witness ==
    /\ pc = "pairs_done"
    /\ Len(dev_difficulty) = 4
    /\ dev_difficulty[1].difficulty > dev_difficulty[2].difficulty
    /\ dev_difficulty[2].difficulty = dev_difficulty[3].difficulty
    /\ dev_difficulty[1].name > dev_difficulty[4].name

\* C16: each step of pair_devs takes the next developer of dev_difficulty; a
\* developer not yet consumed is paired with the first entry of their ranked
\* list that is neither consumed nor excluded for them, the pair going to the
\* end of the result; otherwise the result is left as it is.
C16_GreedyChoice ==
    [][(pc = "pair_loop" /\ dev_idx < Len(dev_difficulty)) =>
          LET a == dev_difficulty[dev_idx + 1].name
              list == dev_matches[a]
              Admissible(j) == /\ list[j].name \notin Range(used_devs)
                               /\ ~Excludes(a, list[j].name)
          IN  /\ dev_idx' = dev_idx + 1
              /\ IF a \notin Range(used_devs) /\ \E j \in DOMAIN list : Admissible(j)
                 THEN \E j \in DOMAIN list :
                          /\ Admissible(j)
                          /\ \A m \in 1..(j - 1) : ~Admissible(m)
                          /\ dev_pairs' = Append(dev_pairs, <<a, list[j].name>>)
                 ELSE dev_pairs' = dev_pairs]_vars

C16_Witness ==
    /\ pc = "pairs_done"
    /\ Len(dev_pairs) = 2
    /\ Excludes(dev_pairs[1][1], dev_matches[dev_pairs[1][1]][1].name)
    /\ dev_pairs[2][2] # dev_matches[dev_pairs[2][1]][1].name

\* C18: when pair_devs has finished, any two developers left unpaired are each
\* in the other's exclusion set.
C18_MaximalPairing ==
    pc = "pairs_done" =>
        \A a, b \in Names \ Paired : a # b => Excludes(a, b) /\ Excludes(b, a)

C18_Witness ==
    /\ pc = "pairs_done"
    /\ Len(devs) = 4
    /\ Len(dev_pairs) = 1
    /\ Cardinality(unmatched) = 2

(***************************************************************************)
(* build_schedule and build_multi_week_schedule                            *)
(***************************************************************************)
Put(dict, key, value) ==
    [k \in DOMAIN dict \cup {key} |-> IF k = key THEN value ELSE dict[k]]

\* build_previous_pairs_from_schedule recording the first member's partner only
RECURSIVE build_previous_pairs_one_way(_)
build_previous_pairs_one_way(sched) ==
    IF sched = <<>> THEN <<>>
    ELSE LET pair == sched[Len(sched)].pair
         IN  Put(build_previous_pairs_one_way(SubSeq(sched, 1, Len(sched) - 1)),
                 pair[1], {pair[2]})

RECURSIVE build_previous_pairs_from_schedule(_)
build_previous_pairs_from_schedule(sched) ==
    IF sched = <<>> THEN <<>>
    ELSE LET pair == sched[Len(sched)].pair
         IN  Put(Put(build_previous_pairs_from_schedule(SubSeq(sched, 1, Len(sched) - 1)),
                     pair[1], {pair[2]}),
                 pair[2], {pair[1]})

\* lines 383-384 and 360-375: the next week starts; an empty or missing
\* previous_pairs becomes the dict of every developer with an empty list
WeekCall ==
    /\ pc = "week_loop"
    /\ week < weeks
    /\ previous_pairs' = IF DOMAIN previous_pairs = {}
                         THEN [name \in {devs[j].name : j \in DOMAIN devs} |-> {}]
                         ELSE previous_pairs
    /\ pc' = "pairs_call"
    /\ UNCHANGED <<devs, dev_matches, dev_difficulty, dev_idx, used_devs, unmatched,
                   dev_pairs, orderVars, weekVars, profileVars,
                   shiftVars>>

\* line 377: build_schedule_order(pairs, {}, start_date)
WeekOrder ==
    /\ pc = "pairs_done"
    /\ schedule_restrictions' = <<>>
    /\ start_date' = week_start
    /\ start_arg' = week_start
    /\ days' = <<>>
    /\ pc' = "order_call"
    /\ UNCHANGED <<pairVars, dev_pairs, pairs, schedule, current_date, day, attempts,
                   can_schedule, rand_pair_idx, tries, weekVars, profileVars,
                   shiftVars>>

\* lines 379, 385-387
WeekNext ==
    /\ pc = "order_done"
    /\ last_schedule' = schedule
    /\ previous_pairs' = build_previous_pairs_from_schedule(schedule)
    /\ week_start' = week_start + DaysInWeek
    /\ week' = week + 1
    /\ pc' = "week_loop"
    /\ UNCHANGED <<devs, dev_matches, dev_difficulty, dev_idx, used_devs, unmatched,
                   dev_pairs, orderVars, weeks, profileVars,
                   shiftVars>>

WeekReturn ==
    /\ pc = "week_loop"
    /\ week >= weeks
    /\ pc' = "weeks_done"
    /\ UNCHANGED <<pairVars, dev_pairs, orderVars, weekVars, profileVars,
                   shiftVars>>

InitWeeks ==
    /\ pc = "week_loop"
    /\ \E n \in 0..MaxDevs : devs \in Cohorts(n, MIN_VAL..MAX_VAL)
    /\ previous_pairs = <<>>
    /\ dev_matches = <<>>
    /\ dev_difficulty = <<>>
    /\ dev_idx = 0
    /\ used_devs = <<>>
    /\ unmatched = {}
    /\ dev_pairs = <<>>
    /\ schedule_restrictions = <<>>
    /\ start_date = 0
    /\ start_arg = 0
    /\ days = <<>>
    /\ pairs = <<>>
    /\ schedule = <<>>
    /\ current_date = 0
    /\ day = 0
    /\ attempts = 0
    /\ can_schedule = FALSE
    /\ rand_pair_idx = 0
    /\ tries = 0
    /\ week_start \in {Saturday - 1, Saturday}
    /\ weeks \in 0..MaxWeeks
    /\ week = 0
    /\ last_schedule = <<>>
    /\ IdleProfile
    /\ IdleShifts

NextWeeks ==
    \/ WeekCall
    \/ BuildPairsCall
    \/ PairStep
    \/ PairsReturn
    \/ WeekOrder
    \/ OrderCall
    \/ ForBody
    \/ \E x \in 0..(DrawRes - 1) : Attempt(x)
    \/ Place
    \/ OrderReturn
    \/ WeekNext
    \/ WeekReturn

SpecWeeks == InitWeeks /\ [][NextWeeks]_vars

(***************************************************************************)
(* Properties of build_multi_week_schedule                                 *)
(***************************************************************************)
\* C9: no pair of a week's schedule was a pair of the week before, in either
\* order, and the previous-pairs map handed on maps every developer scheduled
\* the week before to that week's partner.
C9_NoRepeatNextWeek ==
    week >= 1 =>
        /\ pc \in {"for", "while", "order_done"} =>
              \A j \in DOMAIN schedule, m \in DOMAIN last_schedule :
                  Range(schedule[j].pair) # Range(last_schedule[m].pair)
        /\ \A m \in DOMAIN last_schedule :
              LET pair == last_schedule[m].pair
              IN  /\ pair[1] \in DOMAIN previous_pairs /\ previous_pairs[pair[1]] = {pair[2]}
                  /\ pair[2] \in DOMAIN previous_pairs /\ previous_pairs[pair[2]] = {pair[1]}

C9_Witness ==
    /\ week >= 2
    /\ pc = "order_done"
    /\ Len(schedule) = 2
    /\ Len(last_schedule) = 2

(***************************************************************************)
(* build_pairs on cohorts that may be malformed: a developer may lack a    *)
(* repository and may hold a level just outside [MIN_VAL, MAX_VAL].        *)
(***************************************************************************)
TwoRepos == {"repo1", "repo2"}

LooseLevels == {MIN_VAL - 1, MIN_VAL, MAX_VAL, MAX_VAL + 1}

LooseProfiles == UNION {[T -> LooseLevels] : T \in SUBSET TwoRepos}

LooseCohorts(n) ==
    {[j \in 1..n |-> [name |-> j, repos |-> skills[j]]] : skills \in [1..n -> LooseProfiles]}

InitMalformed ==
    /\ pc = "pairs_call"
    /\ \E n \in 0..MaxMalformedDevs : devs \in LooseCohorts(n)
    /\ IdlePairs
    /\ IdleOrder
    /\ IdleWeeks
    /\ IdleProfile
    /\ IdleShifts

NextMalformed ==
    \/ BuildPairsCall
    \/ BuildPairsKeyError
    \/ PairStep
    \/ PairsReturn

SpecMalformed == InitMalformed /\ [][NextMalformed]_vars

OutOfRange(ds) ==
    \E j \in DOMAIN ds : \E repo \in DOMAIN ds[j].repos :
        ds[j].repos[repo] < MIN_VAL \/ ds[j].repos[repo] > MAX_VAL

LacksTopic(ds) ==
    \E j, m \in DOMAIN ds : \E repo \in DOMAIN ds[m].repos : repo \notin DOMAIN ds[j].repos

\* C11: a cohort with a level outside [MIN_VAL, MAX_VAL] or with a developer
\* lacking a repository others report never reaches pair_devs.
C11_MalformedFailsFast ==
    (OutOfRange(devs) \/ LacksTopic(devs)) => pc \notin {"pair_loop", "pairs_done"}

(***************************************************************************)
(* get_ideal_pair and diff_heuristic called on their own: the ideal pair   *)
(* of a first developer, then its diff against a second developer, for     *)
(* every two well-formed developers over three repositories.               *)
(***************************************************************************)
ThreeRepos == {"repo1", "repo2", "repo3"}

\* line 64 of get_ideal_dev_pairs: get_ideal_pair(dev)
IdealPairCall ==
    /\ pc = "ideal_call"
    /\ ideal_pair' = get_ideal_pair(devs[1])
    /\ pc' = "diff_call"
    /\ UNCHANGED <<pairVars, dev_pairs, orderVars, weekVars, total_diff, shiftVars>>

\* line 88 of get_dev_matches: diff_heuristic(match_pairs, compare_dev['repos'])
DiffCall ==
    /\ pc = "diff_call"
    /\ total_diff' = diff_heuristic(ideal_pair, devs[2].repos)
    /\ pc' = "diff_done"
    /\ UNCHANGED <<pairVars, dev_pairs, orderVars, weekVars, ideal_pair, shiftVars>>

InitProfile ==
    /\ pc = "ideal_call"
    /\ devs \in {[j \in 1..2 |-> [name |-> j, repos |-> skills[j]]] :
                    skills \in [1..2 -> [ThreeRepos -> MIN_VAL..MAX_VAL]]}
    /\ IdlePairs
    /\ IdleOrder
    /\ IdleWeeks
    /\ IdleProfile
    /\ IdleShifts

NextProfile ==
    \/ IdealPairCall
    \/ DiffCall

SpecProfile == InitProfile /\ [][NextProfile]_vars

\* C14: the ideal pair is defined on exactly the developer's repositories, each
\* value is MAX_VAL - level + MIN_VAL and lies in [MIN_VAL, MAX_VAL].
C14_IdealPairInRange ==
    pc # "ideal_call" =>
        /\ DOMAIN ideal_pair = DOMAIN devs[1].repos
        /\ \A repo \in DOMAIN ideal_pair :
              /\ ideal_pair[repo] + devs[1].repos[repo] = MAX_VAL + MIN_VAL
              /\ ideal_pair[repo] >= MIN_VAL
              /\ ideal_pair[repo] <= MAX_VAL

C14_Witness ==
    /\ pc = "diff_call"
    /\ devs[1].repos = [repo \in ThreeRepos |->
                           IF repo = "repo1" THEN 2 ELSE IF repo = "repo2" THEN 4 ELSE 5]
    /\ ideal_pair = [repo \in ThreeRepos |->
                        IF repo = "repo1" THEN 4 ELSE IF repo = "repo2" THEN 2 ELSE 1]

Gap(repo) ==
    IF ideal_pair[repo] >= devs[2].repos[repo]
    THEN ideal_pair[repo] - devs[2].repos[repo]
    ELSE devs[2].repos[repo] - ideal_pair[repo]

\* C15: the diff is the sum of the per-repository gaps between target and
\* candidate, is never negative, and is 0 exactly when they agree everywhere.
C15_DiffIsSumOfGaps ==
    pc = "diff_done" =>
        /\ total_diff = Gap("repo1") + Gap("repo2") + Gap("repo3")
        /\ total_diff >= 0
        /\ total_diff = 0 <=> \A repo \in ThreeRepos : devs[2].repos[repo] = ideal_pair[repo]

C15_Witness ==
    /\ pc = "diff_done"
    /\ ideal_pair = [repo \in ThreeRepos |->
                        IF repo = "repo1" THEN 4 ELSE IF repo = "repo2" THEN 2 ELSE 1]
    /\ devs[2].repos = [repo \in ThreeRepos |->
                           IF repo = "repo1" THEN 5 ELSE IF repo = "repo2" THEN 2 ELSE 1]
    /\ total_diff = 1

(***************************************************************************)
(* random_schedule of genetic.py: devs is the list of developers, dev_1 and *)
(* dev_2 are the two random.randint draws of one pass of the while loop     *)
(***************************************************************************)
\* the largest cohort and the largest total_shifts given to random_schedule
MaxShiftDevs == 3
MaxShifts == 4

\* the condition of the if inside the while loop; dev_1 and dev_2 are 0-based
Acceptable(dev_1, dev_2) ==
    /\ dev_1 # dev_2
    /\ <<devs[dev_1 + 1], devs[dev_2 + 1]>> \notin Range(shift_schedule)
    /\ num_shifts[dev_1 + 1] < max_shifts
    /\ num_shifts[dev_2 + 1] < max_shifts

RandomScheduleCall ==
    /\ pc = "shift_call"
    /\ max_shifts' = CeilDiv(total_shifts * 2, Len(devs))
    /\ num_shifts' = [x \in 1..Len(devs) |-> 0]
    /\ shift_schedule' = <<>>
    /\ pc' = "shift_loop"
    /\ UNCHANGED <<total_shifts, pairVars, dev_pairs, orderVars, weekVars, profileVars>>

Draw(dev_1, dev_2) ==
    /\ pc = "shift_loop"
    /\ Len(shift_schedule) < total_shifts
    /\ IF Acceptable(dev_1, dev_2)
       THEN /\ shift_schedule' = Append(shift_schedule, <<devs[dev_1 + 1], devs[dev_2 + 1]>>)
            /\ num_shifts' = [x \in 1..Len(devs) |->
                                 IF x \in {dev_1 + 1, dev_2 + 1}
                                 THEN num_shifts[x] + 1 ELSE num_shifts[x]]
       ELSE UNCHANGED <<shift_schedule, num_shifts>>
    /\ UNCHANGED <<pc, total_shifts, max_shifts, pairVars, dev_pairs, orderVars, weekVars,
                   profileVars>>

RandomScheduleReturn ==
    /\ pc = "shift_loop"
    /\ Len(shift_schedule) >= total_shifts
    /\ pc' = "shift_done"
    /\ UNCHANGED <<pairVars, dev_pairs, orderVars, weekVars, profileVars, shiftVars>>

InitShifts ==
    /\ pc = "shift_call"
    /\ devs \in {[x \in 1..n |-> x] : n \in 2..MaxShiftDevs}
    /\ total_shifts \in 0..MaxShifts
    /\ max_shifts = 0
    /\ num_shifts = <<>>
    /\ shift_schedule = <<>>
    /\ IdlePairs
    /\ IdleOrder
    /\ IdleWeeks
    /\ IdleProfile

NextShifts ==
    \/ RandomScheduleCall
    \/ \E dev_1, dev_2 \in 0..(Len(devs) - 1) : Draw(dev_1, dev_2)
    \/ RandomScheduleReturn

SpecShifts == InitShifts /\ [][NextShifts]_vars

\* C20: while the schedule of random_schedule is short of total_shifts there is
\* a draw the loop accepts: two distinct developers, both below max_shifts, not
\* yet scheduled as that ordered pair.
C20_NeverStuck ==
    (pc = "shift_loop" /\ Len(shift_schedule) < total_shifts) =>
        \E a, b \in DOMAIN devs :
            /\ a # b
            /\ num_shifts[a] < max_shifts
            /\ num_shifts[b] < max_shifts
            /\ \A j \in DOMAIN shift_schedule : shift_schedule[j] # <<devs[a], devs[b]>>

====
